---- MODULE Spec2Model ----
(***************************************************************************)
(* A model of the retrieval engine of src/main.py: the index line parser   *)
(* (split_index_parts, parse_index_line), the title predicates, and the    *)
(* WikiDb handle (offset map, index scans, chunk loading).                  *)
(*                                                                         *)
(* Text is a sequence of one-character strings; a file is a sequence of    *)
(* lines (index) or of bytes (archive).  A Python exception is an "err"    *)
(* field holding the exception's name; "" means the call returned.         *)
(***************************************************************************)
EXTENDS Integers, Sequences, FiniteSets, TLC

\* Longest line body (the text before the line terminator) of SpecParse.
MaxLineLen == 6
\* Largest number of lines of the index file of Spec.
MaxLines == 3

VARIABLES
    line,        \* SpecParse: the text handed to parse_index_line
    parsed,      \* SpecParse: the outcome of parse_index_line(line)
    index_file,  \* the lines of the file behind self.index_file
    wiki_file,   \* the bytes of the file behind self.wiki_file
    handle,      \* "closed" before WikiDb(...), then "open" or "failed"
    offset_map,  \* self.offset_map, a dict: a function on its set of keys
    index_pos,   \* the cursor of self.index_file, in lines
    wiki_pos,    \* the cursor of self.wiki_file, in bytes
    last,        \* the latest public call on the handle and its outcome
    remembered   \* one earlier load_article call on the handle and its outcome

vars == <<line, parsed, index_file, wiki_file, handle, offset_map,
          index_pos, wiki_pos, last, remembered>>

(***************************************************************************)
(* Python's str and int primitives, as far as the code uses them.          *)
(***************************************************************************)
Digits == <<"0", "1", "2", "3", "4", "5", "6", "7", "8", "9">>

DigitChars == {Digits[i] : i \in 1..10}

DigitVal(c) == (CHOOSE i \in 1..10 : Digits[i] = c) - 1

RECURSIVE FindFrom(_, _, _)
FindFrom(s, c, i) ==
    IF i > Len(s) THEN -1
    ELSE IF s[i] = c THEN i - 1
    ELSE FindFrom(s, c, i + 1)

\* str.find: the 0-based index of the first c in s, -1 when there is none.
find(s, c) == FindFrom(s, c, 1)

RECURSIVE RFindFrom(_, _, _)
RFindFrom(s, c, i) ==
    IF i < 1 THEN -1
    ELSE IF s[i] = c THEN i - 1
    ELSE RFindFrom(s, c, i - 1)

\* A slice bound as Python normalises it: negative counts from the end,
\* and the result is clamped to 0..len.
SliceBound(n, k) ==
    LET m == IF k < 0 THEN k + n ELSE k
    IN  IF m < 0 THEN 0 ELSE IF m > n THEN n ELSE m

\* s[a:b]
PySlice(s, a, b) ==
    LET lo == SliceBound(Len(s), a)
        hi == SliceBound(Len(s), b)
    IN  IF lo < hi THEN SubSeq(s, lo + 1, hi) ELSE <<>>

\* s[a:]
PySliceFrom(s, a) == PySlice(s, a, Len(s))

\* int(s) returns for a non-empty run of decimal digits and raises ValueError
\* otherwise (over an alphabet without blanks, signs and underscores).
int_ok(s) == Len(s) > 0 /\ \A i \in 1..Len(s) : s[i] \in DigitChars

RECURSIVE int_val(_)
int_val(s) ==
    IF s = <<>> THEN 0
    ELSE 10 * int_val(SubSeq(s, 1, Len(s) - 1)) + DigitVal(s[Len(s)])

\* str.lower, on the letters the model uses.
LowerChar(c) == IF c = "A" THEN "a" ELSE c

lower(s) == [i \in 1..Len(s) |-> LowerChar(s[i])]

\* t in s
contains(s, t) ==
    \E i \in 0..(Len(s) - Len(t)) : SubSeq(s, i + 1, i + Len(t)) = t

(***************************************************************************)
(* IndexEntry, split_index_parts, parse_index_line.                        *)
(***************************************************************************)
IndexEntry(o, i, t) == [file_offset |-> o, page_id |-> i, article_name |-> t]

\* A wrong split, at the last ':' of the text.
split_index_parts_last(text) ==
    LET end == RFindFrom(text, ":", Len(text))
    IN  <<PySlice(text, 0, end), PySliceFrom(text, end + 1)>>

split_index_parts(text) ==
    LET end == find(text, ":")
    IN  <<PySlice(text, 0, end), PySliceFrom(text, end + 1)>>

NotParsed == [err |-> "pending", entry |-> <<>>]

Raised(e) == [err |-> e, entry |-> <<>>]

parse_index_line(text) ==
    LET first  == split_index_parts(text)
        second == split_index_parts(first[2])
    IN  IF ~int_ok(first[1]) \/ ~int_ok(second[1])
        THEN Raised("ValueError")
        ELSE [err   |-> "",
              entry |-> <<IndexEntry(int_val(first[1]), int_val(second[1]),
                                     PySlice(second[2], 0, -1))>>]

(***************************************************************************)
(* The predicates of load_index: a closure is its function and its text.   *)
(***************************************************************************)
contains_substr_predicate(text) == [fn |-> "ret", text |-> text]

exact_match_smart_predicate(text) ==
    IF text = lower(text)
    THEN [fn |-> "ci_ret", text |-> text]
    ELSE [fn |-> "cs_ret", text |-> text]

\* predicate(entry)
call(predicate, entry) ==
    CASE predicate.fn = "ret" ->
            contains(entry.article_name, predicate.text)
      [] predicate.fn = "ci_ret" ->
            lower(predicate.text) = lower(entry.article_name)
      [] predicate.fn = "cs_ret" ->
            predicate.text = entry.article_name

(***************************************************************************)
(* The archive.  A bz2 stream is a header byte, one byte per compressed    *)
(* block and an end-of-stream byte; a block holds one <page> record.       *)
(***************************************************************************)
Byte(k, i, t) == [kind |-> k, id |-> i, text |-> t]

RECURSIVE DecompressFrom(_, _, _)
DecompressFrom(data, i, out) ==
    IF i > Len(data) THEN [err |-> "", pages |-> out]
    ELSE IF data[i].kind = "EOS" THEN [err |-> "", pages |-> out]
    ELSE IF data[i].kind = "page"
         THEN DecompressFrom(data, i + 1, Append(out, data[i]))
    ELSE [err |-> "OSError", pages |-> <<>>]

\* bz2.BZ2Decompressor().decompress(data): nothing for no data, OSError for
\* data that is no stream, the blocks decoded so far for a stream cut short,
\* and the whole stream (what follows it is left unused) otherwise.
decompress(data) ==
    IF data = <<>> THEN [err |-> "", pages |-> <<>>]
    ELSE IF data[1].kind # "BZ" THEN [err |-> "OSError", pages |-> <<>>]
    ELSE DecompressFrom(data, 2, <<>>)

\* f.read(size) at cursor pos of a binary file: up to size bytes, the rest of
\* the file for size = -1, ValueError for a size below -1.
read(file, pos, size) ==
    LET rest == IF pos >= Len(file) THEN <<>>
                ELSE SubSeq(file, pos + 1, Len(file))
    IN  IF size < -1 THEN [err |-> "ValueError", data |-> <<>>]
        ELSE IF size = -1 \/ size >= Len(rest) THEN [err |-> "", data |-> rest]
        ELSE [err |-> "", data |-> SubSeq(rest, 1, size)]

get_file_size(file, pos) == [size |-> Len(file), pos |-> pos]

(***************************************************************************)
(* WikiDb.__load_offset_map                                                *)
(***************************************************************************)
DictSet(d, k, v) == [x \in (DOMAIN d) \cup {k} |-> IF x = k THEN v ELSE d[x]]

\* A wrong loop body: the pair is recorded the wrong way round.
offset_step_swapped(map, previous, file_offset) ==
    LET prev == IF previous = -1 THEN file_offset ELSE previous
    IN  IF file_offset # prev
        THEN [map |-> DictSet(map, file_offset, prev), previous |-> file_offset]
        ELSE [map |-> map, previous |-> prev]

\* The body of the loop over the index lines.
offset_step(map, previous, file_offset) ==
    LET prev == IF previous = -1 THEN file_offset ELSE previous
    IN  IF file_offset # prev
        THEN [map |-> DictSet(map, prev, file_offset), previous |-> file_offset]
        ELSE [map |-> map, previous |-> prev]

RECURSIVE OffsetScan(_, _, _, _)
OffsetScan(lines, i, map, previous) ==
    IF i > Len(lines) THEN [err |-> "", map |-> map, previous |-> previous]
    ELSE LET file_offset_str == split_index_parts(lines[i])[1]
         IN  IF ~int_ok(file_offset_str)
             THEN [err |-> "ValueError", map |-> map, previous |-> previous]
             ELSE LET s == offset_step(map, previous, int_val(file_offset_str))
                  IN  OffsetScan(lines, i + 1, s.map, s.previous)

\* A wrong end of the scan: the last chunk gets no end offset.
load_offset_map_no_last(lines, last_offset) ==
    LET r == OffsetScan(lines, 1, <<>>, -1)
    IN  [err |-> r.err, map |-> r.map, pos |-> Len(lines)]

\* Returns the dict and the cursor the scan leaves in the index file.
load_offset_map(lines, last_offset) ==
    LET r == OffsetScan(lines, 1, <<>>, -1)
    IN  IF r.err # "" THEN [err |-> r.err, map |-> <<>>, pos |-> Len(lines)]
        ELSE [err |-> "",
              map |-> DictSet(r.map, r.previous, last_offset),
              pos |-> Len(lines)]

(***************************************************************************)
(* The lines an index file of Spec is made of: OFFSET:ID:TITLE and a line  *)
(* terminator, with one title per id.                                      *)
(***************************************************************************)
Offsets == {0, 4}

Ids == {1, 2, 3}

\* The articles of an archive with pages 1 and 2 in the chunk at offset 0 and
\* page 3 in the chunk at offset 4, as <<offset, id>>.
Catalog == {<<0, 1>>, <<0, 2>>, <<4, 3>>}

TitleOf(i) ==
    CASE i = 1 -> <<"A">>
      [] i = 2 -> <<"a", ":", "a">>
      [] i = 3 -> <<"a">>

Numeral(n) == <<Digits[n + 1]>>

MkLine(o, i) ==
    Numeral(o) \o <<":">> \o Numeral(i) \o <<":">> \o TitleOf(i) \o <<"\n">>

LineSet == {MkLine(c[1], c[2]) : c \in Catalog}

\* parse_index_line, tabulated over the lines of the index file.
ParsedLine == [l \in LineSet |-> parse_index_line(l)]

(***************************************************************************)
(* WikiDb.load_index, WikiDb.load_index_single                             *)
(***************************************************************************)
RECURSIVE ScanAll(_, _, _, _, _)
\* The loop of load_index from cursor pos (in lines); n counts decoded lines.
ScanAll(lines, pos, predicate, entries, n) ==
    IF pos >= Len(lines)
    THEN [err |-> "", entries |-> entries, pos |-> pos, decoded |-> n]
    ELSE LET r == ParsedLine[lines[pos + 1]]
         IN  IF r.err # ""
             THEN [err |-> r.err, entries |-> <<>>, pos |-> pos + 1,
                   decoded |-> n + 1]
             ELSE ScanAll(lines, pos + 1, predicate,
                          IF call(predicate, r.entry[1])
                          THEN Append(entries, r.entry[1]) ELSE entries,
                          n + 1)

\* A wrong load_index: the scan starts at the cursor the last call left.
load_index_no_seek(lines, pos, predicate) ==
    ScanAll(lines, pos, predicate, <<>>, 0)

load_index(lines, pos, predicate) ==
    ScanAll(lines, 0, predicate, <<>>, 0)

RECURSIVE ScanFirst(_, _, _, _)
\* The loop of load_index_single: it returns at the first match.
ScanFirst(lines, pos, predicate, n) ==
    IF pos >= Len(lines)
    THEN [err |-> "", entries |-> <<>>, pos |-> pos, decoded |-> n]
    ELSE LET r == ParsedLine[lines[pos + 1]]
         IN  IF r.err # ""
             THEN [err |-> r.err, entries |-> <<>>, pos |-> pos + 1,
                   decoded |-> n + 1]
             ELSE IF call(predicate, r.entry[1])
             THEN [err |-> "", entries |-> r.entry, pos |-> pos + 1,
                   decoded |-> n + 1]
             ELSE ScanFirst(lines, pos + 1, predicate, n + 1)

\* A wrong load_index_single: the whole index is scanned and the last match
\* is returned.
load_index_single_last(lines, pos, predicate) ==
    LET r == ScanAll(lines, 0, predicate, <<>>, 0)
    IN  [err |-> r.err,
         entries |-> IF r.entries = <<>> THEN <<>>
                     ELSE <<r.entries[Len(r.entries)]>>,
         pos |-> r.pos, decoded |-> r.decoded]

\* None is the empty sequence, an entry a sequence of one.
load_index_single(lines, pos, predicate) ==
    ScanFirst(lines, 0, predicate, 0)

(***************************************************************************)
(* WikiDb.__load_chunk, WikiDb.load_article                                *)
(***************************************************************************)
ChunkFailed(e, pos, reads) ==
    [err |-> e, pages |-> <<>>, pos |-> pos, reads |-> reads]

\* The rest of __load_chunk once the cursor stands at `at`.
ReadChunk(file, at, chunk_size) ==
    LET r == read(file, at, chunk_size)
        d == decompress(r.data)
    IN  IF r.err # "" THEN ChunkFailed(r.err, at, 1)
        ELSE IF d.err # "" THEN ChunkFailed(d.err, at + Len(r.data), 1)
        ELSE [err |-> "", pages |-> d.pages, pos |-> at + Len(r.data),
              reads |-> 1]

\* A wrong __load_chunk: no seek, the chunk is read from the cursor.
load_chunk_no_seek(entry, map, file, pos) ==
    LET begin == entry.file_offset
    IN  IF begin \notin DOMAIN map THEN ChunkFailed("KeyError", pos, 0)
        ELSE ReadChunk(file, pos, map[begin] - begin)

\* Returns the records of the chunk (the text decoded and wrapped in <root>),
\* the cursor left in the archive and the number of read() calls made.
load_chunk(entry, map, file, pos) ==
    LET begin == entry.file_offset
    IN  IF begin \notin DOMAIN map THEN ChunkFailed("KeyError", pos, 0)
        ELSE IF begin < 0 THEN ChunkFailed("OSError", pos, 0)
        ELSE ReadChunk(file, begin, map[begin] - begin)

ArticleFailed(e, pos, reads) ==
    [err |-> e, text |-> <<>>, pos |-> pos, reads |-> reads]

Matches(pages, entry) == SelectSeq(pages, LAMBDA pg : pg.id = entry.page_id)

\* A wrong load_article: the first record of the chunk, whatever its id.
load_article_first_page(entry, map, file, pos) ==
    LET chunk == load_chunk(entry, map, file, pos)
    IN  IF chunk.err # "" THEN ArticleFailed(chunk.err, chunk.pos, chunk.reads)
        ELSE IF chunk.pages = <<>>
        THEN ArticleFailed("StopIteration", chunk.pos, chunk.reads)
        ELSE [err |-> "", text |-> <<chunk.pages[1].text>>,
              pos |-> chunk.pos, reads |-> chunk.reads]

\* The text is the page's revision/text, which mwp.parse wraps unchanged.
load_article(entry, map, file, pos) ==
    LET chunk == load_chunk(entry, map, file, pos)
        found == Matches(chunk.pages, entry)
    IN  IF chunk.err # "" THEN ArticleFailed(chunk.err, chunk.pos, chunk.reads)
        ELSE IF found = <<>>
        THEN ArticleFailed("StopIteration", chunk.pos, chunk.reads)
        ELSE [err |-> "", text |-> <<found[1].text>>,
              pos |-> chunk.pos, reads |-> chunk.reads]

(***************************************************************************)
(* SpecParse: parse_index_line on every line of a bounded alphabet.        *)
(***************************************************************************)
BodyChars == {"0", "1", ":", "a"}

Seqs(S, n) == UNION {[1..k -> S] : k \in 0..n}

\* What iterating a text file yields: a body without a line terminator,
\* followed by "\n" (or by nothing, on the last line of a file).
Lines == {b \o t : b \in Seqs(BodyChars, MaxLineLen), t \in {<<"\n">>, <<>>}}

NoPredicate == [fn |-> "", text |-> <<>>]

\* The record kept of a call: what was called with what (the predicate, or
\* the entry as a sequence of one), the cursor of the file it reads when it
\* was called, and how it ended.
Call(op, predicate, entry, from, err, entries, text, decoded, reads) ==
    [op |-> op, pred |-> predicate, entry |-> entry, from |-> from,
     err |-> err, entries |-> entries, text |-> text, decoded |-> decoded,
     reads |-> reads]

NoCall == Call("none", NoPredicate, <<>>, 0, "", <<>>, <<>>, 0, 0)

NoHandle ==
    /\ index_file = <<>>
    /\ wiki_file = <<>>
    /\ handle = "closed"
    /\ offset_map = <<>>
    /\ index_pos = 0
    /\ wiki_pos = 0
    /\ last = NoCall
    /\ remembered = <<>>

InitParse ==
    /\ line \in Lines
    /\ parsed = NotParsed
    /\ NoHandle

ParseLine ==
    /\ parsed = NotParsed
    /\ parsed' = parse_index_line(line)
    /\ UNCHANGED <<line, index_file, wiki_file, handle, offset_map,
                   index_pos, wiki_pos, last, remembered>>

NextParse == ParseLine

SpecParse == InitParse /\ [][NextParse]_vars

(***************************************************************************)
(* Spec: one WikiDb handle on an index file and an archive file.           *)
(***************************************************************************)
\* The entries load_article is called with: those of the catalog, and one
\* whose id is in no chunk at its offset.
Entries ==
    {IndexEntry(c[1], c[2], TitleOf(c[2])) : c \in Catalog \cup {<<4, 1>>}}

\* The titles with a ':', the title "a" in any case, the title "A".
Predicates ==
    {contains_substr_predicate(<<":">>),
     exact_match_smart_predicate(<<"a">>),
     exact_match_smart_predicate(<<"A">>)}

\* The stream of chunk c: its pages carry the ids of `ids`, and each page
\* its own text.
Stream(c, ids) ==
    <<Byte("BZ", 0, 0)>>
        \o [k \in 1..Len(ids) |-> Byte("page", ids[k], 10 * c + ids[k])]
        \o <<Byte("EOS", 0, 0)>>

RECURSIVE Archive(_, _)
Archive(chunks, c) ==
    IF c > Len(chunks) THEN <<>>
    ELSE Stream(c, chunks[c]) \o Archive(chunks, c + 1)

\* A one-chunk archive that ends before offset 4, the archive of the catalog,
\* and one whose second chunk starts at offset 3.
Archives ==
    {Archive(<< <<1>> >>, 1),
     Archive(<< <<1, 2>>, <<3>> >>, 1),
     Archive(<< <<1>>, <<2, 3>> >>, 1)}

Init ==
    /\ line = <<>>
    /\ parsed = NotParsed
    /\ index_file \in Seqs(LineSet, MaxLines)
    /\ wiki_file \in Archives
    /\ handle = "closed"
    /\ offset_map = <<>>
    /\ index_pos = 0
    /\ wiki_pos = 0
    /\ last = NoCall
    /\ remembered = <<>>

\* WikiDb(wiki_file_name, index_file_name)
WikiDb_init ==
    /\ handle = "closed"
    /\ LET size == get_file_size(wiki_file, wiki_pos)
           r    == load_offset_map(index_file, size.size)
       IN  /\ handle' = IF r.err = "" THEN "open" ELSE "failed"
           /\ offset_map' = r.map
           /\ index_pos' = r.pos
           /\ wiki_pos' = size.pos
           /\ last' = Call("init", NoPredicate, <<>>, index_pos, r.err,
                           <<>>, <<>>, 0, 0)
    /\ UNCHANGED <<line, parsed, index_file, wiki_file, remembered>>

\* self.load_index(predicate)
LoadIndex ==
    /\ handle = "open"
    /\ \E predicate \in Predicates :
          LET r == load_index(index_file, index_pos, predicate)
          IN  /\ index_pos' = r.pos
              /\ last' = Call("load_index", predicate, <<>>, index_pos, r.err,
                              r.entries, <<>>, r.decoded, 0)
    /\ UNCHANGED <<line, parsed, index_file, wiki_file, handle, offset_map,
                   wiki_pos, remembered>>

\* self.load_index_single(predicate)
LoadIndexSingle ==
    /\ handle = "open"
    /\ \E predicate \in Predicates :
          LET r == load_index_single(index_file, index_pos, predicate)
          IN  /\ index_pos' = r.pos
              /\ last' = Call("load_index_single", predicate, <<>>, index_pos,
                              r.err, r.entries, <<>>, r.decoded, 0)
    /\ UNCHANGED <<line, parsed, index_file, wiki_file, handle, offset_map,
                   wiki_pos, remembered>>

\* self.load_article(entry).  One call of the handle's life, any of them, is
\* kept in `remembered` for comparison with the later calls.
LoadArticle ==
    /\ handle = "open"
    /\ \E entry \in Entries, keep \in {remembered = <<>>, FALSE} :
          LET r == load_article(entry, offset_map, wiki_file, wiki_pos)
          IN  /\ wiki_pos' = r.pos
              /\ last' = Call("load_article", NoPredicate, <<entry>>, wiki_pos,
                              r.err, <<>>, r.text, 0, r.reads)
              /\ remembered' =
                    IF remembered = <<>> /\ keep
                    THEN <<[entry |-> entry, err |-> r.err, text |-> r.text]>>
                    ELSE remembered
    /\ UNCHANGED <<line, parsed, index_file, wiki_file, handle, offset_map,
                   index_pos>>

Next == WikiDb_init \/ LoadIndex \/ LoadIndexSingle \/ LoadArticle

Spec == Init /\ [][Next]_vars

(***************************************************************************)
(* The index line format, stated on the text itself (section 6 of the      *)
(* specification): OFFSET ':' ID ':' TITLE '\n'.                            *)
(***************************************************************************)
Colons(l) == {i \in 1..Len(l) : l[i] = ":"}

Least(S) == CHOOSE x \in S : \A y \in S : x <= y

FirstColon(l) == Least(Colons(l))

SecondColon(l) == Least(Colons(l) \ {FirstColon(l)})

OffsetField(l) == SubSeq(l, 1, FirstColon(l) - 1)

IdField(l) == SubSeq(l, FirstColon(l) + 1, SecondColon(l) - 1)

TitleField(l) == SubSeq(l, SecondColon(l) + 1, Len(l) - 1)

IsNumeral(s) == s # <<>> /\ \A i \in 1..Len(s) : s[i] \in DigitChars

\* A numeral as str(int) writes it: no leading zero, except "0" itself.
IsCanonical(s) == IsNumeral(s) /\ (Len(s) > 1 => s[1] # "0")

Terminated(l) == l # <<>> /\ l[Len(l)] = "\n"

ValidLine(l) ==
    /\ Terminated(l)
    /\ Cardinality(Colons(l)) >= 2
    /\ IsNumeral(OffsetField(l))
    /\ IsNumeral(IdField(l))

MalformedLine(l) ==
    \/ Cardinality(Colons(l)) < 2
    \/ ~IsNumeral(OffsetField(l))
    \/ ~IsNumeral(IdField(l))

RECURSIVE IntToStr(_)
\* str(n) for n >= 0
IntToStr(n) ==
    IF n < 10 THEN <<Digits[n + 1]>>
    ELSE IntToStr(n \div 10) \o <<Digits[(n % 10) + 1]>>

\* An entry written back as offset ':' id ':' title and a line terminator.
Serialize(e) ==
    IntToStr(e.file_offset) \o <<":">> \o IntToStr(e.page_id) \o <<":">>
        \o e.article_name \o <<"\n">>

ParseDone == parsed # NotParsed

\* C3: parse_index_line fails, and returns no entry, on every line with fewer
\* than two ':' and on every line whose OFFSET or ID field is no decimal
\* integer.
C3_MalformedLineFails ==
    (ParseDone /\ MalformedLine(line))
        => (parsed.err # "" /\ parsed.entry = <<>>)

\* C4, as claimed: every valid line O:I:T parses to (O, I, T) and is
\* reproduced exactly by writing the entry back, whatever numerals O and I are.
C4_RoundTripAnyNumeral ==
    (ParseDone /\ ValidLine(line))
        => /\ parsed.err = ""
           /\ parsed.entry[1].article_name = TitleField(line)
           /\ Serialize(parsed.entry[1]) = line

\* C4, amended: every valid line O:I:T whose O and I are written without
\* superfluous leading zeros parses, splitting at the first two ':' only, to
\* file_offset = O, page_id = I, article_name = T (line terminator removed),
\* and writing the entry back reproduces the line exactly.
C4_RoundTripCanonical ==
    (/\ ParseDone
     /\ ValidLine(line)
     /\ IsCanonical(OffsetField(line))
     /\ IsCanonical(IdField(line)))
        => /\ parsed.err = ""
           /\ IntToStr(parsed.entry[1].file_offset) = OffsetField(line)
           /\ IntToStr(parsed.entry[1].page_id) = IdField(line)
           /\ parsed.entry[1].article_name = TitleField(line)
           /\ Serialize(parsed.entry[1]) = line

\* A canonical valid line whose title holds a ':' has been parsed.
C4_Witness ==
    /\ ParseDone
    /\ ValidLine(line)
    /\ IsCanonical(OffsetField(line))
    /\ IsCanonical(IdField(line))
    /\ Len(OffsetField(line)) > 1
    /\ Colons(TitleField(line)) # {}
    /\ parsed.err = ""
    /\ Serialize(parsed.entry[1]) = line

(***************************************************************************)
(* The index file of a handle, read by its format.                         *)
(***************************************************************************)
Range(f) == {f[i] : i \in DOMAIN f}

\* The entry a line of the index file stands for.
DecodedLine ==
    [l \in LineSet |->
        IndexEntry(CHOOSE o \in Offsets : IntToStr(o) = OffsetField(l),
                   CHOOSE i \in Ids : IntToStr(i) = IdField(l),
                   TitleField(l))]

DecodedIndex == [i \in 1..Len(index_file) |-> DecodedLine[index_file[i]]]

IndexOffsets == [i \in 1..Len(index_file) |-> DecodedIndex[i].file_offset]

NonDecreasing(offs) == \A i \in 1..(Len(offs) - 1) : offs[i] <= offs[i + 1]

\* The end of the chunk that starts at o: the next start offset, or the
\* archive size for the last one.
ExpectedEnd(starts, o, size) ==
    IF \E x \in starts : x > o THEN Least({x \in starts : x > o}) ELSE size

\* C1: for an index grouped by start offsets o0 < ... < on and an archive of
\* size S, the offset map has exactly the keys o0..on, with map[oi] = o(i+1)
\* and map[on] = S, however many lines repeat an offset.
C1_OffsetMapOfGroupedIndex ==
    (handle = "open" /\ index_file # <<>> /\ NonDecreasing(IndexOffsets))
        => /\ DOMAIN offset_map = Range(IndexOffsets)
           /\ \A o \in DOMAIN offset_map :
                 offset_map[o] =
                    ExpectedEnd(Range(IndexOffsets), o, Len(wiki_file))

\* Offsets 0, 0, 4 on an archive of 7 bytes gave {0: 4, 4: 7}.
C1_Witness ==
    /\ handle = "open"
    /\ IndexOffsets = <<0, 0, 4>>
    /\ Len(wiki_file) = 7
    /\ DOMAIN offset_map = {0, 4}
    /\ offset_map[0] = 4
    /\ offset_map[4] = 7

\* C2: the offset map built from an index with no lines has no keys.
C2_EmptyIndexEmptyMap ==
    (handle = "open" /\ index_file = <<>>) => DOMAIN offset_map = {}

\* C5: whatever was called on the handle before, load_index(p) returns
\* exactly the entries of the decoded index that satisfy p, in index order.
C5_LoadIndexIsFilter ==
    last.op = "load_index"
        => /\ last.err = ""
           /\ last.entries =
                 SelectSeq(DecodedIndex, LAMBDA e : call(last.pred, e))

\* load_index was called with the cursor inside the index (an earlier
\* load_index_single stopped there) and returned some lines, not all.
C5_Witness ==
    /\ last.op = "load_index"
    /\ 0 < last.from
    /\ last.from < Len(index_file)
    /\ last.entries # <<>>
    /\ Len(last.entries) < Len(index_file)

MatchingLines(predicate) ==
    {i \in 1..Len(index_file) : call(predicate, DecodedIndex[i])}

\* C6: load_index_single(p) returns the earliest entry that satisfies p, the
\* head of load_index(p), and decodes no line after it; without a match it
\* returns None after decoding every line.
C6_LoadIndexSingleIsFirst ==
    last.op = "load_index_single"
        => LET m == MatchingLines(last.pred)
           IN  /\ last.err = ""
               /\ m = {} =>
                    /\ last.entries = <<>>
                    /\ last.decoded = Len(index_file)
               /\ m # {} =>
                    /\ last.entries = <<DecodedIndex[Least(m)]>>
                    /\ last.entries[1] =
                          Head(load_index(index_file, index_pos,
                                          last.pred).entries)
                    /\ last.decoded = Least(m)
                    /\ index_pos = Least(m)

\* The match was not the first line, and a later line matches as well.
C6_Witness ==
    /\ last.op = "load_index_single"
    /\ last.entries # <<>>
    /\ last.decoded > 1
    /\ \E j \in MatchingLines(last.pred) : j > last.decoded

SameAsRemembered ==
    (last.op = "load_article" /\ remembered # <<>>
        /\ remembered[1].entry = last.entry[1])
        => (last.err = remembered[1].err /\ last.text = remembered[1].text)

\* C7: load_article with the entry of an earlier call ends as that call did
\* (the same text), whatever was called on the handle in between, and no
\* call on an open handle changes the offset map.
C7_LoadArticleIdempotent ==
    [][/\ SameAsRemembered'
       /\ handle = "open" => offset_map' = offset_map]_vars

\* A repeated load_article returned its text, with the archive cursor left
\* elsewhere by a load_article of another entry in between.
C7_Witness ==
    /\ last.op = "load_article"
    /\ remembered # <<>>
    /\ remembered[1].entry = last.entry[1]
    /\ last.err = ""
    /\ last.text = remembered[1].text
    /\ last.from # 0
    /\ last.from # wiki_pos

\* The ids of the records stored in bytes [begin, end) of the archive.
IdsInRange(begin, end) ==
    {wiki_file[k].id :
        k \in {j \in (begin + 1)..end :
                  j <= Len(wiki_file) /\ wiki_file[j].kind = "page"}}

\* C8: load_article(entry) fails and returns nothing when entry.file_offset
\* is no key of the offset map, before any read of the archive, and when no
\* record of the chunk resolved for the entry has entry.page_id.
C8_BadEntryFails ==
    last.op = "load_article"
        => LET e     == last.entry[1]
               begin == e.file_offset
               chunk == load_chunk(e, offset_map, wiki_file, last.from)
           IN  /\ begin \notin DOMAIN offset_map =>
                    /\ last.err = "KeyError"
                    /\ last.text = <<>>
                    /\ last.reads = 0
                    /\ wiki_pos = last.from
               /\ (/\ begin \in DOMAIN offset_map
                   /\ \A k \in 1..Len(chunk.pages) :
                          chunk.pages[k].id # e.page_id) =>
                    (last.err # "" /\ last.text = <<>>)
               /\ (/\ begin \in DOMAIN offset_map
                   /\ offset_map[begin] >= begin
                   /\ e.page_id \notin IdsInRange(begin, offset_map[begin])) =>
                    (last.err # "" /\ last.text = <<>>)

\* An earlier load_article had an unknown offset; the latest found records in
\* its chunk, none with the id asked for.
C8_Witness ==
    /\ last.op = "load_article"
    /\ remembered # <<>>
    /\ remembered[1].err = "KeyError"
    /\ last.entry[1].file_offset \in DOMAIN offset_map
    /\ IdsInRange(last.entry[1].file_offset,
                  offset_map[last.entry[1].file_offset]) # {}
    /\ last.reads = 1
    /\ last.err = "StopIteration"

\* The number of bytes the archive holds from position begin on.
BytesFrom(begin) ==
    IF begin >= Len(wiki_file) THEN 0 ELSE Len(wiki_file) - begin

\* C9: when the archive holds fewer bytes from entry.file_offset on than the
\* offset map demands, load_article fails with TruncatedArchive.
C9_ShortReadFailsTruncated ==
    (/\ last.op = "load_article"
     /\ last.entry[1].file_offset \in DOMAIN offset_map
     /\ offset_map[last.entry[1].file_offset] - last.entry[1].file_offset
            > BytesFrom(last.entry[1].file_offset))
        => last.err = "TruncatedArchive"

\* C10: for a non-empty index, in any line order, every start offset on an
\* index line is a key of the offset map, so load_article of an entry of
\* the index never fails for an unknown offset.
C10_EveryIndexOffsetIsAKey ==
    (handle = "open" /\ index_file # <<>>)
        => /\ Range(IndexOffsets) \subseteq DOMAIN offset_map
           /\ (last.op = "load_article"
                  /\ last.entry[1] \in Range(DecodedIndex))
                 => last.err # "KeyError"

\* load_article of an entry of an index whose offsets are out of order.
C10_Witness ==
    /\ handle = "open"
    /\ ~NonDecreasing(IndexOffsets)
    /\ Range(IndexOffsets) \subseteq DOMAIN offset_map
    /\ last.op = "load_article"
    /\ last.entry[1] \in Range(DecodedIndex)
    /\ last.err = ""

====
